---- MODULE Spec2Model ----
(***************************************************************************)
(* The Map component of src/components/Map.tsx as a state machine: its      *)
(* React state, the requests it has in flight (geolocation, the Overpass    *)
(* and Nominatim POI queries, the OSRM routing request, the free-text       *)
(* search, the reverse geocoding of a map click, the timer of the initial   *)
(* place), and one action per handler, effect or asynchronous continuation. *)
(*                                                                          *)
(* Coordinates are records [lat, lon] in units of 1/10000 degree.  A        *)
(* handler or continuation that reads state reads the values its closure    *)
(* captured when it was created (the render it belongs to), which is why a  *)
(* request in flight carries those values.  An effect runs in the same      *)
(* action as the update that triggers it.  Presentation-only data (images,  *)
(* ratings, crowd and best-time labels, step texts, the other panels) is    *)
(* left out.                                                                *)
(***************************************************************************)
EXTENDS Integers, Sequences, FiniteSets, Bags, TLC

(***************************************************************************)
(* Bounds of the model.                                                     *)
(***************************************************************************)
NumFixes == 1       \* distinct positions the geolocation service may report
NumPlaces == 1      \* distinct candidates a free-text search may return
NumClicks == 1      \* distinct points of the map the user may click
MaxGeo == 2         \* geolocation acquisitions in flight at once
MaxDiscovery == 2   \* POI discoveries in flight at once
MaxRoute == 1       \* routing requests in flight at once
MaxSearch == 1      \* free-text searches in flight at once
MaxReverse == 1     \* map clicks awaiting the reverse geocoder at once
MaxElems == 1       \* elements in one Overpass or Nominatim response
NumSeeds == 2       \* distinct pseudo-random streams behind Math.random()

(***************************************************************************)
(* JavaScript values.                                                       *)
(***************************************************************************)
NULL == [null |-> TRUE]

Num(v) == [t |-> "number", v |-> v]

\* Number.prototype.toString: the decimal text of the number
NumberToString(n) == [t |-> "string", v |-> n]

\* parseFloat of a number or of the decimal text of a number
ParseFloat(x) == x.v

(***************************************************************************)
(* Floating-point arithmetic, in fixed point.  A real r is the integer      *)
(* round(r * Scale); a rounding is to the nearest, ties away from zero, so  *)
(* that, as in IEEE arithmetic, negating the operands negates the result.   *)
(* Distances are in metres.                                                 *)
(***************************************************************************)
Scale == 40000

\* numerator / denominator (denominator > 0), rounded to the nearest integer
RoundDiv(n, d) == IF n >= 0 THEN (n + d \div 2) \div d ELSE -(((-n) + d \div 2) \div d)

Abs(x) == IF x < 0 THEN -x ELSE x

\* the product of two non-negative fixed-point reals (a factor above 46340 is
\* split, as the product would leave the 32-bit integers)
MulAbs(ax, ay) ==
    IF ax <= 46340 /\ ay <= 46340
    THEN RoundDiv(ax * ay, Scale)
    ELSE RoundDiv((ax \div 200) * ay, 200) + RoundDiv((ax % 200) * ay, Scale)

\* the product of two fixed-point reals
Mul(x, y) == IF (x < 0) = (y < 0) THEN MulAbs(Abs(x), Abs(y)) ELSE -MulAbs(Abs(x), Abs(y))

\* Math.PI
Pi == 125664

HalfPi == 62832

\* the radians of a >= 0, in 1/10000 degree
RadiansAbs(a) == RoundDiv((a \div 1000) * 69813, 1000) + RoundDiv((a % 1000) * 69813, 1000000)

\* degrees (in 1/10000 degree) * Math.PI / 180
Radians(d) == IF d < 0 THEN -RadiansAbs(-d) ELSE RadiansAbs(d)

\* the Taylor polynomial of the sine to the ninth power, for x and its square
SinTerms(x, x2) ==
    Mul(x, Scale - RoundDiv(Mul(x2, Scale - RoundDiv(Mul(x2, Scale - RoundDiv(Mul(x2,
        Scale - RoundDiv(x2, 72)), 42)), 20)), 6))

\* the sine of 0 <= x <= Pi / 2
SinSeries(x) == SinTerms(x, Mul(x, x))

\* the sine of 0 <= r <= Pi
SinHalfTurn(r) == IF r > HalfPi THEN SinSeries(Pi - r) ELSE SinSeries(r)

\* the sine of 0 <= a <= 2 Pi
SinAbs(a) == IF a > Pi THEN -SinHalfTurn(a - Pi) ELSE SinHalfTurn(a)

\* Math.sin, for -2 Pi <= x <= 2 Pi
Sin(x) == IF x < 0 THEN -SinAbs(-x) ELSE SinAbs(x)

\* Math.cos, for -Pi <= x <= Pi
Cos(x) == Sin(HalfPi - Abs(x))

RECURSIVE SqrtIter(_, _)
SqrtIter(n, g) ==
    IF (g + n \div g) \div 2 >= g THEN g ELSE SqrtIter(n, (g + n \div g) \div 2)

\* Math.sqrt of the real n / Scale^2, as a fixed-point real
Sqrt(n) == IF n <= 0 THEN 0 ELSE SqrtIter(n, n)

\* the Taylor polynomial of the arc tangent to the ninth power, for t and its square
AtanTerms(t, t2) ==
    Mul(t, Scale - Mul(t2, RoundDiv(Scale, 3) - Mul(t2, RoundDiv(Scale, 5) - Mul(t2,
        RoundDiv(Scale, 7) - RoundDiv(t2, 9)))))

\* the arc tangent of a ratio 0 <= t <= 0.42
AtanSeries(t) == AtanTerms(t, Mul(t, t))

\* the arc tangent of a ratio 0 <= t <= 1
AtanUnit(t) ==
    IF 5 * t <= 2 * Scale
    THEN AtanSeries(t)
    ELSE RoundDiv(HalfPi, 2) - AtanSeries(RoundDiv((Scale - t) * Scale, Scale + t))

\* Math.atan2(y, x), for y >= 0 and x >= 0
Atan2(y, x) ==
    IF y = 0 THEN 0
    ELSE IF x = 0 THEN HalfPi
    ELSE IF y <= x THEN AtanUnit(RoundDiv(y * Scale, x))
    ELSE HalfPi - AtanUnit(RoundDiv(x * Scale, y))

\* Earth's radius in km
R == 6371

\* a of the Haversine formula, scaled by Scale^2, from sin(dLat/2), sin(dLon/2),
\* cos(lat1) and cos(lat2)
HaversineA(sLat, sLon, cos1, cos2) == sLat * sLat + Mul(Mul(cos1, cos2), sLon) * sLon

\* c of the Haversine formula: 2 * Math.atan2(Math.sqrt(a), Math.sqrt(1 - a))
HaversineC(a) == 2 * Atan2(Sqrt(a), Sqrt(Scale * Scale - a))

\* a distance that takes both cosines at the first latitude
calculateDistanceAtFirstLatitude(lat1, lon1, lat2, lon2) ==
    RoundDiv(R * HaversineC(HaversineA(Sin(RoundDiv(Radians(lat2 - lat1), 2)),
                                       Sin(RoundDiv(Radians(lon2 - lon1), 2)),
                                       Cos(Radians(lat1)), Cos(Radians(lat1)))),
             Scale \div 1000)

\* the Haversine distance, in metres
calculateDistance(lat1, lon1, lat2, lon2) ==
    RoundDiv(R * HaversineC(HaversineA(Sin(RoundDiv(Radians(lat2 - lat1), 2)),
                                       Sin(RoundDiv(Radians(lon2 - lon1), 2)),
                                       Cos(Radians(lat1)), Cos(Radians(lat2)))),
             Scale \div 1000)

Coord(lat, lon) == [lat |-> lat, lon |-> lon]

BagAdd(b, e) == b (+) SetToBag({e})

BagRemove(b, e) == b (-) SetToBag({e})

\* San Francisco, the location used when geolocation fails
DefaultLocation == Coord(377749, -1224194)

\* useState<[number, number]>([20.5937, 78.9629])
InitialPosition == Coord(205937, 789629)

TransportModes == {"driving-car", "cycling", "foot-walking"}

(***************************************************************************)
(* The inputs of the environment.                                           *)
(***************************************************************************)
\* positions navigator.geolocation may report
GeoFixes == {Coord(377000 + 450 * i, -1224194) : i \in 1..NumFixes}

\* points the user may click (e.latlng)
ClickPoints == {Coord(377749 + 225 * i, -1224194 - 300 * i) : i \in 1..NumClicks}

\* the place and the location the parent component may supply
InitialPlaces == {[id |-> 7, coordinates |-> [lat |-> 378199, lng |-> -1224783]]}

InitialUserLocations == {Coord(377600, -1224100)}

\* a place the parent component may supply that is a journey away (Ventura, 485 km)
FarPlaces == {[id |-> 8, coordinates |-> [lat |-> 342826, lng |-> -1191563]]}

VARIABLES
    initialSelectedPlace,   \* prop: NULL or a place
    initialUserLocation,    \* prop: NULL or a coordinate
    geolocationSupported,   \* whether navigator.geolocation exists
    world,                  \* the environment of a run: what the POI services may
                            \* answer and how many requests may be in flight at once
    mounted,                \* whether the mount effects have run
    position,
    showRecommendations,
    searchResults,
    selectedLocation,
    route,
    transportMode,
    userLocation,
    recommendations,
    achievement,
    isInitialLoad,
    locationError,
    isLoadingLocation,
    geoPending,             \* bag: getCurrentPosition calls not yet answered
    overpassPending,        \* bag: fetchNearbyPlaces awaiting Overpass
    nominatimPending,       \* bag: fallbackToNominatim awaiting Nominatim
    routePending,           \* bag: handleGetDirections awaiting OSRM
    timerPending,           \* bag: setTimeout callbacks of the initial place
    searchPending,          \* number of handleSearch calls awaiting Nominatim
    reversePending,         \* bag: map clicks awaiting the reverse geocoder
    listeners,              \* the listeners of the Leaflet map, counted by event type
    recommendationsOrigin   \* history: origin of the discovery that wrote recommendations

props == <<initialSelectedPlace, initialUserLocation, geolocationSupported, world>>

vars ==
    <<initialSelectedPlace, initialUserLocation, geolocationSupported, world, mounted, position,
      showRecommendations, searchResults, selectedLocation, route, transportMode,
      userLocation, recommendations, achievement, isInitialLoad, locationError,
      isLoadingLocation, geoPending, overpassPending, nominatimPending, routePending,
      timerPending, searchPending, reversePending, listeners, recommendationsOrigin>>

\* the event types MapController listens to
MapEvents == {"zoomend", "moveend", "click"}

\* a map no listener is registered on
NoListeners == [e \in MapEvents |-> 0]

\* a MapController whose effect returns no cleanup
MapControllerCleanupKeeping(l) == l

\* the cleanup of the effect of MapController: map.off(type) without a function
\* removes every listener of the type
MapControllerCleanup(l) == [e \in MapEvents |-> 0]

\* the body of the effect of MapController: one map.on for each event type
MapControllerRegister(l) == [e \in MapEvents |-> l[e] + 1]

\* the effect of MapController at a commit.  onZoomEnd, onBoundsChange and
\* onLocationClick are functions Map creates anew in every render, so that the
\* effect runs after every render: its cleanup first, unless it is the first
\* render, then its body
MapControllerEffect(l, first) ==
    IF first THEN MapControllerRegister(l) ELSE MapControllerRegister(MapControllerCleanup(l))

\* the useState initialisers of Map, for the props of the first render
InitialState ==
    /\ mounted = FALSE
    /\ position = InitialPosition
    /\ showRecommendations = FALSE
    /\ searchResults = << >>
    /\ selectedLocation = NULL
    /\ route = NULL
    /\ transportMode = "driving-car"
    /\ userLocation = initialUserLocation
    /\ recommendations = << >>
    /\ achievement = NULL
    /\ isInitialLoad = TRUE
    /\ locationError = NULL
    /\ isLoadingLocation = FALSE
    /\ geoPending = EmptyBag
    /\ overpassPending = EmptyBag
    /\ nominatimPending = EmptyBag
    /\ routePending = EmptyBag
    /\ timerPending = EmptyBag
    /\ searchPending = 0
    /\ reversePending = EmptyBag
    /\ listeners = NoListeners
    /\ recommendationsOrigin = NULL

\* the state of a component that has just been created
FirstState ==
    [position |-> InitialPosition, showRecommendations |-> FALSE, searchResults |-> << >>,
     selectedLocation |-> NULL, route |-> NULL, transportMode |-> "driving-car",
     userLocation |-> initialUserLocation, recommendations |-> << >>, achievement |-> NULL,
     isInitialLoad |-> TRUE, locationError |-> NULL, isLoadingLocation |-> FALSE,
     geoPending |-> EmptyBag, overpassPending |-> EmptyBag, nominatimPending |-> EmptyBag,
     routePending |-> EmptyBag, timerPending |-> EmptyBag, searchPending |-> 0,
     reversePending |-> EmptyBag, recommendationsOrigin |-> NULL]

\* the component's state as one record, the form the handlers below transform
State ==
    [position |-> position, showRecommendations |-> showRecommendations,
     searchResults |-> searchResults, selectedLocation |-> selectedLocation,
     route |-> route, transportMode |-> transportMode, userLocation |-> userLocation,
     recommendations |-> recommendations, achievement |-> achievement,
     isInitialLoad |-> isInitialLoad, locationError |-> locationError,
     isLoadingLocation |-> isLoadingLocation, geoPending |-> geoPending,
     overpassPending |-> overpassPending, nominatimPending |-> nominatimPending,
     routePending |-> routePending, timerPending |-> timerPending,
     searchPending |-> searchPending, reversePending |-> reversePending,
     recommendationsOrigin |-> recommendationsOrigin]

\* s becomes the next state of the component
Becomes(s) ==
    /\ position' = s.position
    /\ showRecommendations' = s.showRecommendations
    /\ searchResults' = s.searchResults
    /\ selectedLocation' = s.selectedLocation
    /\ route' = s.route
    /\ transportMode' = s.transportMode
    /\ userLocation' = s.userLocation
    /\ recommendations' = s.recommendations
    /\ achievement' = s.achievement
    /\ isInitialLoad' = s.isInitialLoad
    /\ locationError' = s.locationError
    /\ isLoadingLocation' = s.isLoadingLocation
    /\ geoPending' = s.geoPending
    /\ overpassPending' = s.overpassPending
    /\ nominatimPending' = s.nominatimPending
    /\ routePending' = s.routePending
    /\ timerPending' = s.timerPending
    /\ searchPending' = s.searchPending
    /\ reversePending' = s.reversePending
    /\ recommendationsOrigin' = s.recommendationsOrigin

\* the state a handler leaves becomes the next state, within the model's bounds,
\* and the effect of MapController runs for the render
Commit(s) ==
    /\ BagCardinality(s.geoPending) <= world.maxGeo
    /\ BagCardinality(s.overpassPending) + BagCardinality(s.nominatimPending) <= world.maxDiscovery
    /\ BagCardinality(s.routePending) <= world.maxRoute
    /\ s.searchPending <= world.maxSearch
    /\ BagCardinality(s.reversePending) <= world.maxReverse
    /\ Becomes(s)
    /\ listeners' = MapControllerEffect(listeners, ~mounted)

(***************************************************************************)
(* POI discovery: fetchNearbyPlaces, fallbackToNominatim, createMockPlaces. *)
(***************************************************************************)
\* all sequences over S of length at most n
SeqsUpTo(S, n) == UNION {[1..k -> S] : k \in 0..n}

\* a || b of JavaScript, on strings ("" is falsy)
OrStr(a, b) == IF a # "" THEN a ELSE b

\* a || b of JavaScript, on optional numbers (undefined and 0 are falsy)
OrNum(a, b) == IF a # NULL /\ a.v # 0 THEN a.v ELSE b

\* s.charAt(0).toUpperCase() + s.slice(1), on the tag values of the model
Capitalize(s) ==
    CASE s = "museum" -> "Museum"
      [] s = "cafe" -> "Cafe"
      [] s = "memorial" -> "Memorial"
      [] s = "Point of Interest" -> "Point of Interest"
      [] OTHER -> s

\* `Place ${index + 1}`, for the indices slice(0, 10) leaves
PlaceLabel(index) ==
    <<"Place 1", "Place 2", "Place 3", "Place 4", "Place 5", "Place 6", "Place 7",
      "Place 8", "Place 9", "Place 10">>[index + 1]

NoTags == [name |-> "", tourism |-> "", historic |-> "", amenity |-> ""]

\* elements Overpass may return: a named node, a tagged way (out body gives a way
\* neither coordinates nor a center), a node without tags (out skel), a node
\* tagged leisure=park only
OverpassElements ==
    {[id |-> "n1", tags |-> [NoTags EXCEPT !.name = "Ferry Building"],
      lat |-> Num(377955), lon |-> Num(-1223937), center |-> NULL],
     [id |-> "w2", tags |-> [NoTags EXCEPT !.tourism = "museum"],
      lat |-> NULL, lon |-> NULL, center |-> NULL],
     [id |-> "n3", tags |-> NULL, lat |-> Num(377800), lon |-> Num(-1224100),
      center |-> NULL]}

\* what the Overpass request of fetchNearbyPlaces may end in: a network error, a
\* status that is not OK or a body that is no JSON (ok FALSE), or a body
OverpassResponses ==
    {[ok |-> FALSE, elements |-> << >>]}
        \cup {[ok |-> TRUE, elements |-> e] : e \in SeqsUpTo(OverpassElements, MaxElems)}

\* records the Nominatim search for tourist attractions may return
NominatimPlaces ==
    {[place_id |-> "p1", display_name |-> <<"Coit Tower", "San Francisco">>,
      type |-> "attraction", lat |-> NumberToString(378024), lon |-> NumberToString(-1224058)],
     [place_id |-> "p2", display_name |-> <<"Pier 39">>, type |-> "",
      lat |-> NumberToString(378087), lon |-> NumberToString(-1224098)]}

NominatimResponses ==
    {[ok |-> FALSE, data |-> << >>]}
        \cup {[ok |-> TRUE, data |-> d] : d \in SeqsUpTo(NominatimPlaces, MaxElems)}

\* Math.random(), in thousandths: the k-th draw of the stream of a seed
Random(seed, k) == ((seed - 1) * (7 * k + 3) * 131) % 1000

Seeds == 1..NumSeeds

\* Array.prototype.slice(0, n)
Slice(seq, n) == SubSeq(seq, 1, IF Len(seq) < n THEN Len(seq) ELSE n)

\* places.sort((a, b) => a.distance - b.distance): a stable sort
RECURSIVE InsertByDistance(_, _)
InsertByDistance(sorted, p) ==
    IF sorted = << >> THEN <<p>>
    ELSE IF Head(sorted).distance - p.distance <= 0
         THEN <<Head(sorted)>> \o InsertByDistance(Tail(sorted), p)
         ELSE <<p>> \o sorted

RECURSIVE SortByDistance(_)
SortByDistance(places) ==
    IF places = << >> THEN << >>
    ELSE InsertByDistance(SortByDistance(SubSeq(places, 1, Len(places) - 1)),
                          places[Len(places)])

\* the filter of fetchNearbyPlaces
HasUsableTags(element) ==
    /\ element.tags # NULL
    /\ \/ element.tags.name # ""
       \/ element.tags.tourism # ""
       \/ element.tags.historic # ""
       \/ element.tags.amenity # ""

\* data.elements.filter(...) of fetchNearbyPlaces
RECURSIVE FilterUsable(_)
FilterUsable(elements) ==
    IF elements = << >> THEN << >>
    ELSE IF HasUsableTags(Head(elements))
         THEN <<Head(elements)>> \o FilterUsable(Tail(elements))
         ELSE FilterUsable(Tail(elements))

\* the map callback of fetchNearbyPlaces
OverpassPlace(element, index, lat, lon) ==
    LET name == OrStr(element.tags.name,
                  OrStr(IF element.tags.tourism # "" THEN Capitalize(element.tags.tourism) ELSE "",
                  OrStr(IF element.tags.historic # "" THEN Capitalize(element.tags.historic) ELSE "",
                  OrStr(IF element.tags.amenity # "" THEN Capitalize(element.tags.amenity) ELSE "",
                   PlaceLabel(index)))))
        category == OrStr(element.tags.tourism,
                      OrStr(element.tags.historic,
                       OrStr(element.tags.amenity, "Point of Interest")))
        eLat == OrNum(element.lat, IF element.center # NULL THEN element.center.lat ELSE lat)
        eLon == OrNum(element.lon, IF element.center # NULL THEN element.center.lon ELSE lon)
    IN  [id |-> element.id, name |-> name, description |-> Capitalize(category),
         location |-> Coord(eLat, eLon),
         distance |-> calculateDistance(lat, lon, eLat, eLon)]

\* the places fetchNearbyPlaces makes of the elements of a response
OverpassPlaces(elements, lat, lon) ==
    LET kept == Slice(FilterUsable(elements), 10)
    IN  SortByDistance([i \in 1..Len(kept) |-> OverpassPlace(kept[i], i - 1, lat, lon)])

\* the map callback of fallbackToNominatim
NominatimPlace(place, lat, lon) ==
    [id |-> place.place_id, name |-> Head(place.display_name),
     description |-> OrStr(place.type, "Tourist Attraction"),
     location |-> Coord(ParseFloat(place.lat), ParseFloat(place.lon)),
     distance |-> calculateDistance(lat, lon, ParseFloat(place.lat), ParseFloat(place.lon))]

MockNames == <<"Central Park", "Museum of Art", "Historic Tower", "Botanical Garden", "City Square">>

MockDescriptions == <<"Nature", "Cultural", "Historical", "Nature", "Entertainment">>

MockIds == <<"mock-0", "mock-1", "mock-2", "mock-3", "mock-4">>

\* a mock place whose distance is drawn from 0 km on
MockPlaceFromOrigin(i, lat, lon, seed) ==
    LET distance == RoundDiv(Random(seed, 5 * i) * 5000, 1000)
        bearing == (Random(seed, 5 * i + 1) * 360) \div 1000
    IN  [id |-> MockIds[i + 1], name |-> MockNames[i + 1],
         description |-> MockDescriptions[i + 1],
         location |-> [from |-> Coord(lat, lon), distance |-> distance, bearing |-> bearing],
         distance |-> distance]

\* the place createMockPlaces pushes in iteration i (five draws of Math.random()
\* each: distance, bearing, rating, crowd level, best time); turf.destination is
\* kept as a term of its arguments
MockPlace(i, lat, lon, seed) ==
    LET distance == 500 + RoundDiv(Random(seed, 5 * i) * 4500, 1000)
        bearing == (Random(seed, 5 * i + 1) * 360) \div 1000
    IN  [id |-> MockIds[i + 1], name |-> MockNames[i + 1],
         description |-> MockDescriptions[i + 1],
         location |-> [from |-> Coord(lat, lon), distance |-> distance, bearing |-> bearing],
         distance |-> distance]

\* ShowPlaces fenced: a result for an origin that is not the selected
\* destination is dropped
ShowPlacesOfDestination(s, places, lat, lon) ==
    IF /\ s.selectedLocation # NULL
       /\ Coord(ParseFloat(s.selectedLocation.lat), ParseFloat(s.selectedLocation.lon))
              # Coord(lat, lon)
    THEN s
    ELSE [s EXCEPT !.recommendations = places, !.showRecommendations = TRUE,
                   !.recommendationsOrigin = Coord(lat, lon)]

\* ShowPlaces merging: the places are added to those stored
ShowPlacesMerging(s, places, lat, lon) ==
    [s EXCEPT !.recommendations = @ \o places, !.showRecommendations = TRUE,
              !.recommendationsOrigin = Coord(lat, lon)]

\* setRecommendations(places); setShowRecommendations(true)
ShowPlaces(s, places, lat, lon) ==
    [s EXCEPT !.recommendations = places, !.showRecommendations = TRUE,
              !.recommendationsOrigin = Coord(lat, lon)]

createMockPlaces(s, lat, lon, seed) ==
    ShowPlaces(s, [k \in 1..5 |-> MockPlace(k - 1, lat, lon, seed)], lat, lon)

\* fallbackToNominatim up to its await: the request is in flight
fallbackToNominatim(s, lat, lon) ==
    [s EXCEPT !.nominatimPending = BagAdd(@, Coord(lat, lon))]

\* fetchNearbyPlaces up to its await: the request is in flight
fetchNearbyPlaces(s, lat, lon) ==
    [s EXCEPT !.overpassPending = BagAdd(@, Coord(lat, lon))]

\* fetchNearbyPlaces going from a failed request straight to the mock places
fetchNearbyPlacesResumeSkippingNominatim(s, lat, lon, response) ==
    LET t == [s EXCEPT !.overpassPending = BagRemove(@, Coord(lat, lon))]
    IN  IF ~response.ok THEN createMockPlaces(t, lat, lon, 1)
        ELSE IF Len(response.elements) > 0
        THEN ShowPlaces(t, OverpassPlaces(response.elements, lat, lon), lat, lon)
        ELSE fallbackToNominatim(t, lat, lon)

\* fetchNearbyPlaces from the response on
\* fetchNearbyPlaces going on to Nominatim after it has shown its places
fetchNearbyPlacesResumeFallingThrough(s, lat, lon, response) ==
    LET t == [s EXCEPT !.overpassPending = BagRemove(@, Coord(lat, lon))]
    IN  IF ~response.ok THEN fallbackToNominatim(t, lat, lon)
        ELSE IF Len(response.elements) > 0
        THEN fallbackToNominatim(
                 ShowPlaces(t, OverpassPlaces(response.elements, lat, lon), lat, lon),
                 lat, lon)
        ELSE fallbackToNominatim(t, lat, lon)

fetchNearbyPlacesResume(s, lat, lon, response) ==
    LET t == [s EXCEPT !.overpassPending = BagRemove(@, Coord(lat, lon))]
    IN  IF ~response.ok THEN fallbackToNominatim(t, lat, lon)
        ELSE IF Len(response.elements) > 0
        THEN ShowPlaces(t, OverpassPlaces(response.elements, lat, lon), lat, lon)
        ELSE fallbackToNominatim(t, lat, lon)

\* fallbackToNominatim from the response on
fallbackToNominatimResume(s, lat, lon, response, seed) ==
    LET t == [s EXCEPT !.nominatimPending = BagRemove(@, Coord(lat, lon))]
    IN  IF ~response.ok THEN createMockPlaces(t, lat, lon, seed)
        ELSE IF Len(response.data) > 0
        THEN ShowPlaces(t,
                 SortByDistance([i \in 1..Len(response.data) |->
                     NominatimPlace(response.data[i], lat, lon)]),
                 lat, lon)
        ELSE createMockPlaces(t, lat, lon, seed)

(***************************************************************************)
(* Destinations.  A location object is [place_id, lat, lon, obj]; obj is    *)
(* the index of the object in the current searchResults array, 0 when it    *)
(* is no element of it, and Fresh for an object a handler has just built    *)
(* and no render has held yet (React compares state values by identity).    *)
(***************************************************************************)
\* the tag of an object literal a handler builds
Fresh == -1

\* whether the selected location b of a render is the object a of the render
\* before it: a fresh object is no object of an earlier render
SameObject(a, b) == a = b

\* an effect of the selected location that fetches nothing
selectedLocationEffectIdle(before, s) ==
    IF s.selectedLocation # NULL /\ s.selectedLocation.obj = Fresh
    THEN [s EXCEPT !.selectedLocation.obj = 0]
    ELSE s

\* useEffect(..., [selectedLocation]), run after an update that began in state before
selectedLocationEffect(before, s) ==
    IF s.selectedLocation # NULL /\ ~SameObject(before.selectedLocation, s.selectedLocation)
    THEN fetchNearbyPlaces(
             [s EXCEPT !.selectedLocation.obj = IF @ = Fresh THEN 0 ELSE @],
             ParseFloat(s.selectedLocation.lat), ParseFloat(s.selectedLocation.lon))
    ELSE s

handleLocationClick(s, location) ==
    [s EXCEPT !.selectedLocation = location,
              !.position = Coord(ParseFloat(location.lat), ParseFloat(location.lon)),
              !.route = NULL]

\* handleLocationSelect without its setRoute(null)
handleLocationSelectKeepingRoute(s, location) ==
    [s EXCEPT !.selectedLocation = location,
              !.position = Coord(ParseFloat(location.lat), ParseFloat(location.lon))]

handleLocationSelect(s, location) ==
    [s EXCEPT !.selectedLocation = location,
              !.position = Coord(ParseFloat(location.lat), ParseFloat(location.lon)),
              !.route = NULL]

(***************************************************************************)
(* Routing: handleGetDirections and simulateRoute.                          *)
(***************************************************************************)
\* what a handler created in the render of state s reads of it
Closure(s) ==
    [userLocation |-> s.userLocation,
     selectedLocation |->
        IF s.selectedLocation = NULL THEN NULL
        ELSE [lat |-> s.selectedLocation.lat, lon |-> s.selectedLocation.lon],
     transportMode |-> s.transportMode]

\* a mode button that also asks for directions under the new mode
setTransportModeRecomputing(s, mode) ==
    [s EXCEPT !.transportMode = mode,
              !.routePending =
                  IF s.userLocation = NULL \/ s.selectedLocation = NULL THEN @
                  ELSE BagAdd(@, [userLocation |-> s.userLocation,
                                  selectedLocation |-> [lat |-> s.selectedLocation.lat,
                                                        lon |-> s.selectedLocation.lon],
                                  transportMode |-> mode])]

\* onClick of a transport mode button: setTransportMode(mode)
setTransportMode(s, mode) == [s EXCEPT !.transportMode = mode]

\* the profile of the routing request
Profile(mode) == IF mode = "driving-car" THEN "car" ELSE IF mode = "cycling" THEN "bike" ELSE "foot"

\* handleGetDirections, of the render whose closure is c, up to its await
\* handleGetDirections asking for a route as soon as there is a destination
handleGetDirectionsOfDestination(s, c) ==
    IF c.selectedLocation = NULL THEN s
    ELSE [s EXCEPT !.routePending = BagAdd(@, [c EXCEPT !.transportMode = Profile(@)])]

handleGetDirections(s, c) ==
    IF c.userLocation = NULL \/ c.selectedLocation = NULL THEN s
    ELSE [s EXCEPT !.routePending = BagAdd(@, [c EXCEPT !.transportMode = Profile(@)])]

RouteAchievement ==
    [title |-> "Route Planner", description |-> "Successfully planned your first route!",
     points |-> 50]

\* the metres of a central angle on turf's sphere (earthRadius 6371008.8 m, that
\* is 159.27522 m for 1 / Scale of a radian)
TurfMetres(c) ==
    (c \div 1000) * 159275 + RoundDiv((c % 1000) * 159275 + RoundDiv(c * 22, 100), 1000)

\* turf.length of a line of two [lon, lat] points: their Haversine distance on
\* turf's sphere, here in metres
turfLength(start, end) ==
    TurfMetres(HaversineC(HaversineA(Sin(RoundDiv(Radians(end[2] - start[2]), 2)),
                                     Sin(RoundDiv(Radians(end[1] - start[1]), 2)),
                                     Cos(Radians(start[2])), Cos(Radians(end[2])))))

\* turf.along(line, distance * i / steps): the start for 0, the end for the whole
\* length, a point between them otherwise
turfAlong(start, end, i, steps) ==
    IF i = 0 THEN start
    ELSE IF i = steps THEN end
    ELSE <<start[1] + RoundDiv((end[1] - start[1]) * i, steps),
           start[2] + RoundDiv((end[2] - start[2]) * i, steps)>>

Max(a, b) == IF a >= b THEN a ELSE b

\* simulateRoute estimating the duration from calculateDistance
simulateRouteOfCalculatedDistance(s, c) ==
    IF c.userLocation = NULL \/ c.selectedLocation = NULL THEN s
    ELSE
        LET startPoint == <<c.userLocation.lon, c.userLocation.lat>>
            endPoint == <<ParseFloat(c.selectedLocation.lon), ParseFloat(c.selectedLocation.lat)>>
            distance == turfLength(startPoint, endPoint)
            steps == Max(5, distance \div 500)
            coordinates == [k \in 1..(steps + 1) |-> turfAlong(startPoint, endPoint, k - 1, steps)]
        IN  [s EXCEPT !.route = [coordinates |-> coordinates,
                                 duration |-> RoundDiv(calculateDistance(startPoint[2], startPoint[1],
                                                                         endPoint[2], endPoint[1]) * 3,
                                                       1000),
                                 distance |-> NumberToString(RoundDiv(distance, 100))],
                      !.achievement = RouteAchievement]

\* simulateRoute estimating 3 min per km by car, 4 by bike, 12 on foot
simulateRoutePacedByMode(s, c) ==
    IF c.userLocation = NULL \/ c.selectedLocation = NULL THEN s
    ELSE
        LET startPoint == <<c.userLocation.lon, c.userLocation.lat>>
            endPoint == <<ParseFloat(c.selectedLocation.lon), ParseFloat(c.selectedLocation.lat)>>
            distance == turfLength(startPoint, endPoint)
            steps == Max(5, distance \div 500)
            coordinates == [k \in 1..(steps + 1) |-> turfAlong(startPoint, endPoint, k - 1, steps)]
            pace == IF c.transportMode = "car" THEN 3 ELSE IF c.transportMode = "bike" THEN 4 ELSE 12
        IN  [s EXCEPT !.route = [coordinates |-> coordinates,
                                 duration |-> RoundDiv(distance * pace, 1000),
                                 distance |-> NumberToString(RoundDiv(distance, 100))],
                      !.achievement = RouteAchievement]

\* simulateRoute sampling i < steps: as many points as steps
simulateRouteShortOfDestination(s, c) ==
    IF c.userLocation = NULL \/ c.selectedLocation = NULL THEN s
    ELSE
        LET startPoint == <<c.userLocation.lon, c.userLocation.lat>>
            endPoint == <<ParseFloat(c.selectedLocation.lon), ParseFloat(c.selectedLocation.lat)>>
            distance == turfLength(startPoint, endPoint)
            steps == Max(5, distance \div 500)
            coordinates == [k \in 1..steps |-> turfAlong(startPoint, endPoint, k - 1, steps)]
        IN  [s EXCEPT !.route = [coordinates |-> coordinates,
                                 duration |-> RoundDiv(distance * 3, 1000),
                                 distance |-> NumberToString(RoundDiv(distance, 100))],
                      !.achievement = RouteAchievement]

\* simulateRoute, of the render whose closure is c
simulateRoute(s, c) ==
    IF c.userLocation = NULL \/ c.selectedLocation = NULL THEN s
    ELSE
        LET startPoint == <<c.userLocation.lon, c.userLocation.lat>>
            endPoint == <<ParseFloat(c.selectedLocation.lon), ParseFloat(c.selectedLocation.lat)>>
            distance == turfLength(startPoint, endPoint)
            steps == Max(5, distance \div 500)
            coordinates == [k \in 1..(steps + 1) |-> turfAlong(startPoint, endPoint, k - 1, steps)]
        IN  [s EXCEPT !.route = [coordinates |-> coordinates,
                                 duration |-> RoundDiv(distance * 3, 1000),
                                 distance |-> NumberToString(RoundDiv(distance, 100))],
                      !.achievement = RouteAchievement]

\* the route OSRM finds for a request: duration in seconds, distance in metres
OsrmRoute(q) ==
    LET from == <<q.userLocation.lon, q.userLocation.lat>>
        to == <<ParseFloat(q.selectedLocation.lon), ParseFloat(q.selectedLocation.lat)>>
        metres == turfLength(from, to)
        pace == IF q.transportMode = "car" THEN 1 ELSE IF q.transportMode = "bike" THEN 4 ELSE 12
    IN  [geometry |-> [coordinates |-> <<from, to>>],
         duration |-> (metres * pace) \div 16, distance |-> metres]

\* what the routing request may end in: a network error or a body that is no JSON
\* (ok FALSE), or the body of an answer
RouteResponses(q) ==
    {[ok |-> FALSE, code |-> "", routes |-> << >>],
     [ok |-> TRUE, code |-> "Ok", routes |-> <<OsrmRoute(q)>>],
     [ok |-> TRUE, code |-> "Ok", routes |-> << >>],
     [ok |-> TRUE, code |-> "NoRoute", routes |-> << >>]}

\* handleGetDirections from the response on
handleGetDirectionsResume(s, q, response) ==
    LET t == [s EXCEPT !.routePending = BagRemove(@, q)]
    IN  IF ~response.ok THEN simulateRoute(t, q)
        ELSE IF response.code = "Ok" /\ Len(response.routes) > 0
        THEN [t EXCEPT !.route = [coordinates |-> response.routes[1].geometry.coordinates,
                                  duration |-> RoundDiv(response.routes[1].duration, 60),
                                  distance |-> NumberToString(RoundDiv(response.routes[1].distance, 100))],
                       !.achievement = RouteAchievement]
        ELSE t

(***************************************************************************)
(* Geolocation: getUserLocation and its callbacks.                          *)
(***************************************************************************)
GeoErrors == {"User denied Geolocation", "Timeout expired"}

\* `Location error: ${error.message}. Please enable location services.`
LocationErrorMessage(message) == [error |-> message]

\* getUserLocation, of a render with (noDestination) or without a destination
\* getUserLocation dropping the known location while the new one is awaited
getUserLocationForgetting(s, noDestination) ==
    IF geolocationSupported
    THEN [s EXCEPT !.isLoadingLocation = TRUE, !.locationError = NULL,
                   !.userLocation = NULL,
                   !.geoPending = BagAdd(@, [noDestination |-> noDestination])]
    ELSE fetchNearbyPlaces(
             [s EXCEPT !.locationError = LocationErrorMessage("Geolocation is not supported by this browser"),
                       !.isLoadingLocation = FALSE,
                       !.userLocation = DefaultLocation,
                       !.position = DefaultLocation],
             DefaultLocation.lat, DefaultLocation.lon)

getUserLocation(s, noDestination) ==
    IF geolocationSupported
    THEN [s EXCEPT !.isLoadingLocation = TRUE, !.locationError = NULL,
                   !.geoPending = BagAdd(@, [noDestination |-> noDestination])]
    ELSE fetchNearbyPlaces(
             [s EXCEPT !.locationError = LocationErrorMessage("Geolocation is not supported by this browser"),
                       !.isLoadingLocation = FALSE,
                       !.userLocation = DefaultLocation,
                       !.position = DefaultLocation],
             DefaultLocation.lat, DefaultLocation.lon)

\* whether a render of state s has no destination: !selectedLocation && !initialSelectedPlace
NoDestination(s) == s.selectedLocation = NULL /\ initialSelectedPlace = NULL

\* the success callback without its fetchNearbyPlaces
getUserLocationSuccessWithoutDiscovery(s, c, fix) ==
    [s EXCEPT !.geoPending = BagRemove(@, c),
              !.userLocation = fix,
              !.position = IF c.noDestination THEN fix ELSE @,
              !.isLoadingLocation = FALSE]

\* the success callback of getCurrentPosition
getUserLocationSuccess(s, c, fix) ==
    fetchNearbyPlaces(
        [s EXCEPT !.geoPending = BagRemove(@, c),
                  !.userLocation = fix,
                  !.position = IF c.noDestination THEN fix ELSE @,
                  !.isLoadingLocation = FALSE],
        fix.lat, fix.lon)

\* the error callback without its setIsLoadingLocation(false)
getUserLocationErrorStillLoading(s, c, message) ==
    fetchNearbyPlaces(
        [s EXCEPT !.geoPending = BagRemove(@, c),
                  !.locationError = LocationErrorMessage(message),
                  !.userLocation = DefaultLocation,
                  !.position = DefaultLocation],
        DefaultLocation.lat, DefaultLocation.lon)

\* the error callback of getCurrentPosition
getUserLocationError(s, c, message) ==
    fetchNearbyPlaces(
        [s EXCEPT !.geoPending = BagRemove(@, c),
                  !.locationError = LocationErrorMessage(message),
                  !.isLoadingLocation = FALSE,
                  !.userLocation = DefaultLocation,
                  !.position = DefaultLocation],
        DefaultLocation.lat, DefaultLocation.lon)

handleLocateMe(s) ==
    IF s.userLocation # NULL THEN [s EXCEPT !.position = s.userLocation]
    ELSE getUserLocation(s, NoDestination(s))

(***************************************************************************)
(* The effects of Map.                                                      *)
(***************************************************************************)
\* the body of useEffect(..., [initialSelectedPlace, isInitialLoad, userLocation])
\* for a place, in the render of state before
initialSelectedPlaceEffect(before, s, place) ==
    IF place # NULL /\ before.isInitialLoad
    THEN [s EXCEPT !.selectedLocation =
                       [place_id |-> place.id,
                        lat |-> NumberToString(place.coordinates.lat),
                        lon |-> NumberToString(place.coordinates.lng), obj |-> Fresh],
                   !.route = IF before.route # NULL THEN NULL ELSE @,
                   !.position = Coord(place.coordinates.lat, place.coordinates.lng),
                   !.timerPending = BagAdd(@, Closure(before)),
                   !.isInitialLoad = FALSE]
    ELSE s

\* the body of useEffect(..., [initialUserLocation]), in the render of state before
initialUserLocationEffect(before, s) ==
    IF initialUserLocation # NULL THEN [s EXCEPT !.userLocation = initialUserLocation]
    ELSE getUserLocation(s, NoDestination(before))

\* the callback of setTimeout in the effect of the initial place
timerCallback(s, c) ==
    LET t == [s EXCEPT !.timerPending = BagRemove(@, c)]
    IN  IF c.userLocation # NULL THEN handleGetDirections(t, c) ELSE t

(***************************************************************************)
(* Search and map clicks.                                                   *)
(***************************************************************************)
SearchCandidate(i) ==
    [place_id |-> 100 + i, lat |-> NumberToString(378044),
     lon |-> NumberToString(-1222712 + 500 * i)]

\* what the request of handleSearch may end in: a failure, or the ranked candidates
SearchResponses ==
    {[ok |-> FALSE, data |-> << >>]}
        \cup {[ok |-> TRUE, data |-> [i \in 1..k |-> SearchCandidate(i)]] : k \in 0..NumPlaces}

\* handleSearch up to its await
handleSearch(s) == [s EXCEPT !.searchPending = @ + 1]

\* handleSearch from the response on; the objects of the old array are no longer
\* elements of searchResults
handleSearchResume(s, response) ==
    LET t == [s EXCEPT !.searchPending = @ - 1]
    IN  IF response.ok
        THEN [t EXCEPT !.searchResults = response.data,
                       !.selectedLocation = IF @ = NULL THEN @ ELSE [@ EXCEPT !.obj = 0]]
        ELSE t

\* what the reverse geocoder may answer to a click: a failure, null, a record
ReverseResponses == {"error", "null", "data"}

\* a click handler that drops the destination when the reverse geocoder fails
mapClickResumeClearing(s, point, response) ==
    LET t == [s EXCEPT !.reversePending = BagRemove(@, point)]
    IN  IF response = "data"
        THEN handleLocationClick(t, [place_id |-> 200, lat |-> Num(point.lat),
                                     lon |-> Num(point.lon), obj |-> Fresh])
        ELSE IF response = "error" THEN [t EXCEPT !.selectedLocation = NULL, !.route = NULL]
        ELSE t

\* the click handler of MapController from the response on
mapClickResume(s, point, response) ==
    LET t == [s EXCEPT !.reversePending = BagRemove(@, point)]
    IN  IF response = "data"
        THEN handleLocationClick(t, [place_id |-> 200, lat |-> Num(point.lat),
                                     lon |-> Num(point.lon), obj |-> Fresh])
        ELSE t

(***************************************************************************)
(* The actions: one per effect, user event or asynchronous continuation.    *)
(***************************************************************************)
\* the first render commits and its effects run
Mount ==
    /\ ~mounted
    /\ mounted' = TRUE
    /\ LET s1 == initialSelectedPlaceEffect(State, State, initialSelectedPlace)
           s2 == initialUserLocationEffect(State, s1)
       IN  Commit(selectedLocationEffect(State, s2))
    /\ UNCHANGED props

\* the parent supplies the initial place after the mount
ReceiveInitialSelectedPlaceOf(place) ==
    /\ mounted
    /\ initialSelectedPlace = NULL
    /\ initialSelectedPlace' = place
    /\ Commit(selectedLocationEffect(State, initialSelectedPlaceEffect(State, State, place)))
    /\ UNCHANGED <<initialUserLocation, geolocationSupported, world, mounted>>

ReceiveInitialSelectedPlace == \E place \in InitialPlaces : ReceiveInitialSelectedPlaceOf(place)

\* the timer of the initial place fires
TimerFiresOf(c) ==
    /\ mounted
    /\ Commit(timerCallback(State, c))
    /\ UNCHANGED <<props, mounted>>

TimerFires == \E c \in BagToSet(timerPending) : TimerFiresOf(c)

\* the geolocation service reports a position
GeolocationSuccessOf(c, fix) ==
    /\ mounted
    /\ Commit(getUserLocationSuccess(State, c, fix))
    /\ UNCHANGED <<props, mounted>>

GeolocationSuccess == \E c \in BagToSet(geoPending), fix \in GeoFixes : GeolocationSuccessOf(c, fix)

\* the geolocation service reports an error
GeolocationErrorOf(c, message) ==
    /\ mounted
    /\ Commit(getUserLocationError(State, c, message))
    /\ UNCHANGED <<props, mounted>>

GeolocationError ==
    \E c \in BagToSet(geoPending), message \in GeoErrors : GeolocationErrorOf(c, message)

\* the Retry button of the error banner
Retry ==
    /\ mounted
    /\ locationError # NULL
    /\ Commit(getUserLocation(State, NoDestination(State)))
    /\ UNCHANGED <<props, mounted>>

\* the locate-me button
LocateMe ==
    /\ mounted
    /\ Commit(handleLocateMe(State))
    /\ UNCHANGED <<props, mounted>>

\* the Overpass request of a discovery is answered
OverpassResponseOf(q, response) ==
    /\ mounted
    /\ Commit(fetchNearbyPlacesResume(State, q.lat, q.lon, response))
    /\ UNCHANGED <<props, mounted>>

OverpassResponse ==
    \E q \in BagToSet(overpassPending), response \in world.overpass :
        OverpassResponseOf(q, response)

\* the Nominatim request of a discovery is answered
NominatimResponseOf(q, response, seed) ==
    /\ mounted
    /\ Commit(fallbackToNominatimResume(State, q.lat, q.lon, response, seed))
    /\ UNCHANGED <<props, mounted>>

NominatimResponse ==
    \E q \in BagToSet(nominatimPending), response \in world.nominatim, seed \in world.seeds :
        NominatimResponseOf(q, response, seed)

\* the user submits a query to the search bar
Search ==
    /\ mounted
    /\ Commit(handleSearch(State))
    /\ UNCHANGED <<props, mounted>>

\* the request of a search is answered
SearchResponseOf(response) ==
    /\ mounted
    /\ searchPending > 0
    /\ Commit(handleSearchResume(State, response))
    /\ UNCHANGED <<props, mounted>>

SearchResponse == \E response \in SearchResponses : SearchResponseOf(response)

\* the user picks an element of the search results
SelectSearchResultOf(i) ==
    /\ mounted
    /\ Commit(selectedLocationEffect(State,
           handleLocationSelect(State,
               [place_id |-> searchResults[i].place_id, lat |-> searchResults[i].lat,
                lon |-> searchResults[i].lon, obj |-> i])))
    /\ UNCHANGED <<props, mounted>>

SelectSearchResult == \E i \in 1..Len(searchResults) : SelectSearchResultOf(i)

\* the user clicks the map: every click listener of the map starts a request
MapClick ==
    /\ mounted
    /\ \E point \in ClickPoints :
            Commit([State EXCEPT !.reversePending = @ (+) [p \in {point} |-> listeners["click"]]])
    /\ UNCHANGED <<props, mounted>>

\* the reverse geocoding of a click is answered
ReverseResponseOf(point, response) ==
    /\ mounted
    /\ Commit(selectedLocationEffect(State, mapClickResume(State, point, response)))
    /\ UNCHANGED <<props, mounted>>

ReverseResponse ==
    \E point \in BagToSet(reversePending), response \in ReverseResponses :
        ReverseResponseOf(point, response)

\* the Get Directions button of the location info box
GetDirections ==
    /\ mounted
    /\ selectedLocation # NULL
    /\ Commit(handleGetDirections(State, Closure(State)))
    /\ UNCHANGED <<props, mounted>>

\* the routing request is answered
RouteResponseOf(q, response) ==
    /\ mounted
    /\ Commit(handleGetDirectionsResume(State, q, response))
    /\ UNCHANGED <<props, mounted>>

RouteResponse ==
    \E q \in BagToSet(routePending) : \E response \in RouteResponses(q) :
        RouteResponseOf(q, response)

\* one of the three transport mode buttons
SetTransportModeOf(mode) ==
    /\ mounted
    /\ Commit(setTransportMode(State, mode))
    /\ UNCHANGED <<props, mounted>>

SetTransportMode == \E mode \in TransportModes : SetTransportModeOf(mode)

\* onClose of LocationInfoBox
CloseLocationInfoBox ==
    /\ mounted
    /\ selectedLocation # NULL
    /\ Commit(selectedLocationEffect(State, [State EXCEPT !.selectedLocation = NULL]))
    /\ UNCHANGED <<props, mounted>>

\* onClose of DirectionsPanel
CloseDirectionsPanel ==
    /\ mounted
    /\ route # NULL
    /\ Commit([State EXCEPT !.route = NULL])
    /\ UNCHANGED <<props, mounted>>

\* onClose of AchievementPopup
CloseAchievementPopup ==
    /\ mounted
    /\ achievement # NULL
    /\ Commit([State EXCEPT !.achievement = NULL])
    /\ UNCHANGED <<props, mounted>>

\* the recommendations button
ToggleRecommendations ==
    /\ mounted
    /\ Commit([State EXCEPT !.showRecommendations = ~@])
    /\ UNCHANGED <<props, mounted>>

\* onClose of RecommendationPanel
CloseRecommendationPanel ==
    /\ mounted
    /\ showRecommendations
    /\ Commit([State EXCEPT !.showRecommendations = FALSE])
    /\ UNCHANGED <<props, mounted>>

\* the component is removed: the cleanup of MapController runs, the state is
\* dropped, and what is still in flight calls the setters of a component that
\* is gone, to no effect
Unmount ==
    /\ mounted
    /\ mounted' = FALSE
    /\ Becomes(FirstState)
    /\ listeners' = MapControllerCleanup(listeners)
    /\ UNCHANGED props

Next ==
    \/ Mount
    \/ ReceiveInitialSelectedPlace
    \/ TimerFires
    \/ GeolocationSuccess
    \/ GeolocationError
    \/ Retry
    \/ LocateMe
    \/ OverpassResponse
    \/ NominatimResponse
    \/ Search
    \/ SearchResponse
    \/ SelectSearchResult
    \/ MapClick
    \/ ReverseResponse
    \/ GetDirections
    \/ RouteResponse
    \/ SetTransportMode
    \/ CloseLocationInfoBox
    \/ CloseDirectionsPanel
    \/ CloseAchievementPopup
    \/ ToggleRecommendations
    \/ CloseRecommendationPanel
    \/ Unmount

\* an environment without restriction beyond the bounds
OpenWorld ==
    [overpass |-> OverpassResponses, nominatim |-> NominatimResponses, seeds |-> Seeds,
     maxGeo |-> MaxGeo, maxDiscovery |-> MaxDiscovery, maxRoute |-> MaxRoute,
     maxSearch |-> MaxSearch, maxReverse |-> MaxReverse]

Init ==
    /\ world = OpenWorld
    /\ initialSelectedPlace \in {NULL} \cup InitialPlaces
    /\ initialUserLocation \in {NULL} \cup InitialUserLocations
    /\ geolocationSupported \in BOOLEAN
    /\ InitialState

\* the component in every environment within the bounds
Spec == Init /\ [][Next]_vars

(***************************************************************************)
(* POI discovery on its own: the location comes from the geolocation        *)
(* service (or its absence), no destination is selected, and the POI        *)
(* services answer in every way.                                            *)
(***************************************************************************)
InitDiscovery ==
    /\ world = OpenWorld
    /\ initialSelectedPlace = NULL
    /\ initialUserLocation = NULL
    /\ geolocationSupported \in BOOLEAN
    /\ InitialState

NextDiscovery ==
    \/ Mount
    \/ GeolocationSuccess
    \/ GeolocationError
    \/ Retry
    \/ OverpassResponse
    \/ NominatimResponse
    \/ ToggleRecommendations
    \/ CloseRecommendationPanel

SpecDiscovery == InitDiscovery /\ [][NextDiscovery]_vars

(***************************************************************************)
(* Destinations and routes: the parent supplies the user location, the      *)
(* user selects destinations in the three ways and asks for directions,     *)
(* the routing service answers in every way, and the POI service answers    *)
(* every discovery with one usable element before the next one starts.      *)
(* The directions panel and the achievement popup stay open, so that only   *)
(* a selection removes a route.                                             *)
(***************************************************************************)
\* an environment whose Overpass service always answers with a named node, and
\* in which the user waits for a request before issuing the next of its kind
CalmWorld ==
    [OpenWorld EXCEPT
        !.overpass = {[ok |-> TRUE, elements |-> <<e>>] :
                        e \in {x \in OverpassElements : x.id = "n1"}},
        !.maxDiscovery = 1, !.maxRoute = 1, !.maxSearch = 1, !.maxReverse = 1]

InitRouting ==
    /\ world = CalmWorld
    /\ initialSelectedPlace \in {NULL} \cup InitialPlaces
    /\ initialUserLocation \in InitialUserLocations
    /\ geolocationSupported = TRUE
    /\ InitialState

NextRouting ==
    \/ Mount
    \/ ReceiveInitialSelectedPlace
    \/ TimerFires
    \/ OverpassResponse
    \/ Search
    \/ SearchResponse
    \/ SelectSearchResult
    \/ MapClick
    \/ ReverseResponse
    \/ GetDirections
    \/ RouteResponse
    \/ CloseLocationInfoBox

SpecRouting == InitRouting /\ [][NextRouting]_vars

(***************************************************************************)
(* Overlapping discoveries: the user selects destinations by search and by  *)
(* map click while earlier discoveries are still in flight; each POI        *)
(* service either fails or answers with one usable result.                  *)
(***************************************************************************)
BriefWorld ==
    [OpenWorld EXCEPT
        !.overpass = {r \in OverpassResponses :
                        ~r.ok \/ r.elements \in {<<e>> : e \in {x \in OverpassElements : x.id = "n1"}}},
        !.nominatim = {r \in NominatimResponses : ~r.ok},
        !.seeds = {1}]

InitOverlap ==
    /\ world = BriefWorld
    /\ initialSelectedPlace = NULL
    /\ initialUserLocation \in InitialUserLocations
    /\ geolocationSupported = TRUE
    /\ InitialState

NextOverlap ==
    \/ Mount
    \/ Search
    \/ SearchResponse
    \/ SelectSearchResult
    \/ MapClick
    \/ ReverseResponse
    \/ CloseLocationInfoBox
    \/ OverpassResponse
    \/ NominatimResponse

SpecOverlap == InitOverlap /\ [][NextOverlap]_vars

(***************************************************************************)
(* Locating the user while destinations come and go: the location comes     *)
(* from the geolocation service, which answers late, and the user clicks    *)
(* the map, closes the info box and presses the locate-me button meanwhile. *)
(***************************************************************************)
InitLocate ==
    /\ world = CalmWorld
    /\ initialSelectedPlace = NULL
    /\ initialUserLocation = NULL
    /\ geolocationSupported = TRUE
    /\ InitialState

NextLocate ==
    \/ Mount
    \/ LocateMe
    \/ GeolocationSuccess
    \/ MapClick
    \/ ReverseResponse
    \/ CloseLocationInfoBox
    \/ OverpassResponse

SpecLocate == InitLocate /\ [][NextLocate]_vars

(***************************************************************************)
(* Directions asked for before and after the location is known: the         *)
(* component is mounted without a location, with or without a destination,  *)
(* the geolocation service answers in its own time, and the user picks      *)
(* destinations on the map and asks for directions meanwhile.               *)
(***************************************************************************)
InitWaiting ==
    /\ world = CalmWorld
    /\ initialSelectedPlace \in {NULL} \cup InitialPlaces
    /\ initialUserLocation = NULL
    /\ geolocationSupported = TRUE
    /\ InitialState

NextWaiting ==
    \/ Mount
    \/ TimerFires
    \/ GeolocationSuccess
    \/ GeolocationError
    \/ OverpassResponse
    \/ MapClick
    \/ ReverseResponse
    \/ GetDirections
    \/ RouteResponse
    \/ CloseLocationInfoBox

SpecWaiting == InitWaiting /\ [][NextWaiting]_vars

(***************************************************************************)
(* One POI discovery from its invocation to its end.  The component is      *)
(* mounted either without a destination and without a location, and the     *)
(* one acquisition of the location invokes the discovery, or with both,     *)
(* and the selection of the destination invokes it.  The POI services       *)
(* answer in every way, and each of them answers every request in the end,  *)
(* by a body or by a failure.                                               *)
(***************************************************************************)
InitTiers ==
    /\ world = OpenWorld
    /\ \/ /\ initialSelectedPlace = NULL
          /\ initialUserLocation = NULL
          /\ geolocationSupported \in BOOLEAN
       \/ /\ initialSelectedPlace \in InitialPlaces
          /\ initialUserLocation \in InitialUserLocations
          /\ geolocationSupported = TRUE
    /\ InitialState

NextTiers ==
    \/ Mount
    \/ TimerFires
    \/ GeolocationSuccess
    \/ GeolocationError
    \/ OverpassResponse
    \/ NominatimResponse
    \/ ToggleRecommendations
    \/ CloseRecommendationPanel

SpecTiers ==
    /\ InitTiers
    /\ [][NextTiers]_vars
    /\ WF_vars(OverpassResponse)
    /\ WF_vars(NominatimResponse)

(***************************************************************************)
(* Acquisitions of the location that overlap: the geolocation service       *)
(* answers late, with a position or an error, and the user presses the      *)
(* locate-me button and the Retry button, clicks the map and closes the     *)
(* location info box meanwhile.                                             *)
(***************************************************************************)
NextAcquire ==
    \/ Mount
    \/ LocateMe
    \/ Retry
    \/ GeolocationSuccess
    \/ GeolocationError
    \/ MapClick
    \/ ReverseResponse
    \/ CloseLocationInfoBox
    \/ OverpassResponse

SpecAcquire == InitLocate /\ [][NextAcquire]_vars

(***************************************************************************)
(* The location from its three sources, the parent component, the           *)
(* geolocation service and the fallback, with everything the user does to   *)
(* it afterwards: retries, locate-me presses, and destinations picked on    *)
(* the map and closed again.                                                *)
(***************************************************************************)
InitResolve ==
    /\ world = CalmWorld
    /\ initialSelectedPlace = NULL
    /\ initialUserLocation \in {NULL} \cup InitialUserLocations
    /\ geolocationSupported \in BOOLEAN
    /\ InitialState

SpecResolve == InitResolve /\ [][NextAcquire]_vars

(***************************************************************************)
(* Directions under the three transport modes: the parent supplies the      *)
(* destination and the user location (possibly the same point), the user    *)
(* changes the mode, asks for directions and closes the directions panel    *)
(* and the achievement popup; the routing service answers in every way.     *)
(***************************************************************************)
InitModes ==
    /\ world = CalmWorld
    /\ initialSelectedPlace \in InitialPlaces
    /\ initialUserLocation \in
           InitialUserLocations
               \cup {Coord(p.coordinates.lat, p.coordinates.lng) : p \in InitialPlaces}
    /\ geolocationSupported = TRUE
    /\ InitialState

NextModes ==
    \/ Mount
    \/ TimerFires
    \/ OverpassResponse
    \/ SetTransportMode
    \/ GetDirections
    \/ RouteResponse
    \/ CloseDirectionsPanel
    \/ CloseAchievementPopup

SpecModes == InitModes /\ [][NextModes]_vars

(***************************************************************************)
(* Directions to a destination nearby or a journey away: the parent         *)
(* supplies the destination and the user location, the user asks for        *)
(* directions and closes the location info box, the directions panel and    *)
(* the achievement popup; the routing service answers in every way.         *)
(***************************************************************************)
InitJourney ==
    /\ world = CalmWorld
    /\ initialSelectedPlace \in InitialPlaces \cup FarPlaces
    /\ initialUserLocation \in InitialUserLocations
    /\ geolocationSupported = TRUE
    /\ InitialState

NextJourney ==
    \/ Mount
    \/ TimerFires
    \/ OverpassResponse
    \/ GetDirections
    \/ RouteResponse
    \/ CloseLocationInfoBox
    \/ CloseDirectionsPanel
    \/ CloseAchievementPopup

SpecJourney == InitJourney /\ [][NextJourney]_vars

(***************************************************************************)
(* The life of the component: it is mounted with a user location, renders   *)
(* again and again as the user clicks the map, searches, changes the        *)
(* transport mode, opens and closes the recommendations and closes the      *)
(* location info box, and is removed and mounted anew.                      *)
(***************************************************************************)
InitLife ==
    /\ world = CalmWorld
    /\ initialSelectedPlace = NULL
    /\ initialUserLocation \in InitialUserLocations
    /\ geolocationSupported = TRUE
    /\ InitialState

NextLife ==
    \/ Mount
    \/ Unmount
    \/ MapClick
    \/ ReverseResponse
    \/ OverpassResponse
    \/ Search
    \/ SearchResponse
    \/ SetTransportMode
    \/ ToggleRecommendations
    \/ CloseLocationInfoBox

SpecLife == InitLife /\ [][NextLife]_vars

(***************************************************************************)
(* Properties.                                                              *)
(***************************************************************************)
\* the number of POI discoveries in flight, in either remote tier
DiscoveryPending == BagCardinality(overpassPending) + BagCardinality(nominatimPending)

\* a step in which a directions request completes
RouteCompletes == BagCardinality(routePending') < BagCardinality(routePending)

\* a step in which a POI discovery completes
DiscoveryCompletes == DiscoveryPending' < DiscoveryPending

\* C1: every directions request completes by setting a route, whatever the
\* routing service answers (failure, non-success code, success with no
\* route): the step in which a request completes ends with some route.
C1_RequestEndsWithRoute == [][RouteCompletes => route' # NULL]_vars

\* C2: every POI discovery that completes leaves a non-empty sequence of
\* points of interest, for every outcome of the primary and the secondary
\* service.
C2_DiscoveryLeavesPlaces == [][DiscoveryCompletes => recommendations' # << >>]_vars

\* a step in which the user selects search result i
SelectsSearchResult == \E i \in 1..Len(searchResults) : SelectSearchResultOf(i)

\* a step in which the reverse geocoder resolves a clicked point to a place
SelectsClickedPoint == \E point \in BagToSet(reversePending) : ReverseResponseOf(point, "data")

\* a step in which the initial place of the parent becomes the destination
SelectsInitialPlace ==
    \/ Mount /\ initialSelectedPlace # NULL
    \/ \E place \in InitialPlaces : ReceiveInitialSelectedPlaceOf(place)

\* C3: selecting a destination, from a search result, by a map click or as
\* the initial place supplied by the parent, clears the route: no route is
\* present in the state right after the selection.
C3_SelectionClearsRoute ==
    [][SelectsSearchResult \/ SelectsClickedPoint \/ SelectsInitialPlace => route' = NULL]_vars

\* a destination has just been selected (its discovery is still in flight)
\* after a route had been resolved (its achievement is still shown), and no
\* route is present; in SpecRouting nothing but a selection removes a route
C3_RouteClearedBySelection ==
    /\ selectedLocation # NULL
    /\ BagIn(Coord(ParseFloat(selectedLocation.lat), ParseFloat(selectedLocation.lon)),
             overpassPending)
    /\ achievement # NULL
    /\ route = NULL

\* C4: a route is never present without a selected destination; closing the
\* location info box, which clears the destination, clears the route too.
C4_RouteNeedsDestination == route # NULL => selectedLocation # NULL

\* C5: the stored points of interest are sorted non-decreasingly by their
\* distance from the origin, whichever tier produced them.
C5_PlacesSortedByDistance ==
    \A i \in 1..(Len(recommendations) - 1) :
        recommendations[i].distance <= recommendations[i + 1].distance

\* whether places are the output of createMockPlaces
IsMock(places) == places # << >> /\ places[1].id = "mock-0"

\* the number of discoveries in flight for origin q
DiscoveriesFor(q) == CopiesIn(q, overpassPending) + CopiesIn(q, nominatimPending)

\* whether a response of the primary service calls for the secondary search
PrimaryFailedOrEmpty(response) == ~response.ok \/ response.elements = << >>

\* whether a response of the secondary search calls for the mock places
SecondaryFailedOrEmpty(response) == ~response.ok \/ response.data = << >>

\* C6: within one discovery the tiers run in order and only on need.  The
\* secondary search is requested exactly when the primary request of that
\* discovery failed or returned no elements, a failure leading to the same
\* tier as an empty result; the mock places are produced exactly when the
\* secondary search failed or returned nothing; no other step requests the
\* secondary search or produces mock places.  (A step that ends otherwise
\* than a response calls for is no completion with that response.)
C6_TiersOnNeed ==
    [][/\ overpassPending' # overpassPending =>
            \A q \in BagToSet(overpassPending) : \A response \in world.overpass :
                \/ IF PrimaryFailedOrEmpty(response)
                   THEN /\ nominatimPending' = BagAdd(nominatimPending, q)
                        /\ recommendations' = recommendations
                   ELSE nominatimPending' = nominatimPending
                \/ ~OverpassResponseOf(q, response)
       /\ nominatimPending' # nominatimPending =>
            \A q \in BagToSet(nominatimPending) : \A response \in world.nominatim :
                \A seed \in world.seeds :
                    \/ IsMock(recommendations') <=> SecondaryFailedOrEmpty(response)
                    \/ ~NominatimResponseOf(q, response, seed)
       /\ BagCardinality(nominatimPending') > BagCardinality(nominatimPending) =>
            \E q \in BagToSet(overpassPending) :
                /\ overpassPending' = BagRemove(overpassPending, q)
                /\ nominatimPending' = BagAdd(nominatimPending, q)
       /\ IsMock(recommendations') /\ recommendations' # recommendations =>
            \E q \in BagToSet(nominatimPending) :
                /\ nominatimPending' = BagRemove(nominatimPending, q)
                /\ recommendationsOrigin' = q
      ]_vars

\* a discovery went through all three tiers: mock places are stored
C6_MockPlacesStored == IsMock(recommendations) /\ DiscoveryPending = 0

\* C7: requests in flight are neither cancelled nor fenced.  A discovery
\* leaves the requests in flight only by completing, and every completing
\* discovery stores its own result, whatever destination is selected by then
\* and whatever else is in flight: the stored places are those of the
\* discovery that completed last.
C7_LastCompletionWins ==
    [][IF DiscoveryCompletes
       THEN \E q \in BagToSet(overpassPending) \cup BagToSet(nominatimPending) :
                /\ \/ /\ overpassPending' = BagRemove(overpassPending, q)
                      /\ nominatimPending' = nominatimPending
                   \/ /\ nominatimPending' = BagRemove(nominatimPending, q)
                      /\ overpassPending' = overpassPending
                /\ recommendationsOrigin' = q
       ELSE \A q \in BagToSet(overpassPending) \cup BagToSet(nominatimPending) :
                DiscoveriesFor(q)' >= DiscoveriesFor(q)
      ]_vars

\* every discovery has completed, and the stored places belong to an origin
\* that is not the selected destination: the discovery of an earlier
\* selection completed after the one of the latest selection
C7_PlacesOfEarlierDestination ==
    /\ DiscoveryPending = 0
    /\ selectedLocation # NULL
    /\ recommendationsOrigin # NULL
    /\ recommendationsOrigin
           # Coord(ParseFloat(selectedLocation.lat), ParseFloat(selectedLocation.lon))

\* C8: when the initial place is supplied and the user location is known,
\* the timer of the initial place issues one directions request for that
\* place when it fires.
C8_TimerRequestsInitialPlace ==
    [][\A c \in BagToSet(timerPending) :
            TimerFiresOf(c) /\ userLocation # NULL =>
                \E q \in BagToSet(routePending') :
                    /\ routePending' = BagAdd(routePending, q)
                    /\ ParseFloat(q.selectedLocation.lat) = initialSelectedPlace.coordinates.lat
                    /\ ParseFloat(q.selectedLocation.lon) = initialSelectedPlace.coordinates.lng
      ]_vars

\* a step in which getUserLocation runs in a browser without geolocation
UnsupportedAcquisition ==
    /\ ~geolocationSupported
    /\ \/ Mount /\ initialUserLocation = NULL
       \/ Retry

\* a step in which a geolocation request ends in its error callback
FailedAcquisition ==
    /\ geoPending' # geoPending
    /\ \E c \in BagToSet(geoPending) : \E message \in GeoErrors : GeolocationErrorOf(c, message)

\* C9: when the acquisition of the location fails (error callback, or no
\* geolocation in the browser), the user location is the fallback coordinate
\* (37.7749, -122.4194), an error message is set and the loading flag is off.
C9_FailureFallsBack ==
    [][FailedAcquisition \/ UnsupportedAcquisition =>
            /\ userLocation' = Coord(377749, -1224194)
            /\ locationError' # NULL
            /\ isLoadingLocation' = FALSE
      ]_vars

\* a geolocation request has failed in a browser that supports geolocation
C9_FellBackAfterError ==
    /\ geolocationSupported
    /\ userLocation = DefaultLocation
    /\ locationError # NULL
    /\ ~isLoadingLocation

\* C10: every acquisition that completes starts a discovery around the
\* coordinate it resolved to: the reported position on success, the
\* fallback coordinate on failure.
C10_CompletionDiscovers ==
    [][/\ \A c \in BagToSet(geoPending) : \A fix \in GeoFixes :
            geoPending' # geoPending /\ GeolocationSuccessOf(c, fix) =>
                userLocation' = fix /\ overpassPending' = BagAdd(overpassPending, fix)
       /\ FailedAcquisition \/ UnsupportedAcquisition =>
            /\ userLocation' = DefaultLocation
            /\ overpassPending' = BagAdd(overpassPending, DefaultLocation)
      ]_vars

\* a reported position is the user location and its discovery is in flight
C10_DiscoveryAroundFix == userLocation \in GeoFixes /\ BagIn(userLocation, overpassPending)

\* C11: when geolocation succeeds, the reported coordinate becomes the
\* viewing centre exactly if no destination is selected at the moment the
\* success callback runs; with a destination selected by then, the viewing
\* centre is left as it is.
C11_CentreFollowsCurrentSelection ==
    [][geoPending' # geoPending =>
            \A c \in BagToSet(geoPending) : \A fix \in GeoFixes :
                GeolocationSuccessOf(c, fix) =>
                    position' = IF selectedLocation = NULL THEN fix ELSE position
      ]_vars

\* C12: changing the transport mode while a route exists issues no routing
\* request and leaves the route, the destination and the points of interest
\* as they are; a new route appears only in a step that completes a
\* directions request.
C12_ModeChangeKeepsRoute ==
    [][/\ transportMode' # transportMode /\ route # NULL =>
            /\ routePending' = routePending
            /\ route' = route
            /\ selectedLocation' = selectedLocation
            /\ recommendations' = recommendations
       /\ route' # route /\ route' # NULL => RouteCompletes
      ]_vars

\* the route the routing service found for the driving profile is shown, a
\* request for the cycling profile is in flight and the selected mode is
\* walking: with one request in flight at a time, the mode was changed to
\* walking after the driving route was resolved, and the route is still there
C12_RouteOfAnotherMode ==
    /\ route # NULL
    /\ selectedLocation # NULL
    /\ transportMode = "foot-walking"
    /\ \E q \in BagToSet(routePending) : q.transportMode = "bike"
    /\ Len(route.coordinates) = 2
    /\ route.duration > 0
    /\ route.duration =
           RoundDiv(OsrmRoute([userLocation |-> userLocation,
                               selectedLocation |-> [lat |-> selectedLocation.lat,
                                                     lon |-> selectedLocation.lon],
                               transportMode |-> "car"]).duration, 60)

\* the coordinate of the selected destination
DestinationCoord ==
    Coord(ParseFloat(selectedLocation.lat), ParseFloat(selectedLocation.lon))

\* a step in which a destination is selected in one of the three ways
SelectsDestination == SelectsSearchResult \/ SelectsClickedPoint \/ SelectsInitialPlace

C14_FailedSearchLeavesNone ==
    [][searchPending' < searchPending /\ SearchResponseOf([ok |-> FALSE, data |-> << >>]) =>
            searchResults' = << >>
      ]_vars

C16_MockPlacesFiveInRange ==
    [][nominatimPending' # nominatimPending =>
            \A q \in BagToSet(nominatimPending) : \A seed \in Seeds :
                \A response \in {r \in NominatimResponses : SecondaryFailedOrEmpty(r)} :
                    NominatimResponseOf(q, response, seed) =>
                        /\ Len(recommendations') = 5
                        /\ \A i \in 1..Len(recommendations') :
                               /\ recommendations'[i].distance >= 500
                               /\ recommendations'[i].distance <= 5000
                        /\ [i \in 1..Len(recommendations') |-> recommendations'[i].name]
                               = <<"Central Park", "Museum of Art", "Historic Tower",
                                   "Botanical Garden", "City Square">>]_vars

\* mock places of a draw away from the lower end are stored
C16_MockPlacesDrawn ==
    /\ IsMock(recommendations)
    /\ \E i \in 1..Len(recommendations) : recommendations[i].distance > 500

\* the outputs a single tier can produce for origin q
TierOutputs(q) ==
    {OverpassPlaces(r.elements, q.lat, q.lon) :
        r \in {x \in OverpassResponses : ~PrimaryFailedOrEmpty(x)}}
    \cup {SortByDistance([i \in 1..Len(r.data) |-> NominatimPlace(r.data[i], q.lat, q.lon)]) :
        r \in {x \in NominatimResponses : ~SecondaryFailedOrEmpty(x)}}
    \cup {[k \in 1..5 |-> MockPlace(k - 1, q.lat, q.lon, seed)] : seed \in Seeds}

\* the origins of the discoveries that follow an acquisition of the location
LocatedOrigins == GeoFixes \cup {DefaultLocation}

\* the outputs of a single tier, by origin
TierOutputsOf == [q \in LocatedOrigins |-> TierOutputs(q)]

\* C17: each completed POI discovery replaces the stored places in full with
\* the output of the single tier that produced it, never merging it with the
\* places stored before or with the output of another tier, and makes the
\* recommendations panel visible, also when the user closed the panel while
\* the request was in flight.
C17_CompletionReplacesPlaces ==
    [][DiscoveryCompletes =>
            /\ showRecommendations'
            /\ recommendationsOrigin' \in LocatedOrigins
            /\ recommendations' \in TierOutputsOf[recommendationsOrigin']]_vars

\* a discovery is in flight over stored places of an earlier discovery while
\* the panel is closed
C17_PendingOverClosedPanel ==
    /\ DiscoveryPending > 0
    /\ ~showRecommendations
    /\ recommendations # << >>

\* C18: every route resolution that sets a route, by the routing service or
\* by the straight-line fallback, signals the achievement with 50 points, and
\* the achievement is signalled at most once: when a route is present, an
\* earlier resolution has signalled it, and once its popup is closed no later
\* step signals it again.
C18_AchievementOnce ==
    [][/\ RouteCompletes =>
            \A q \in BagToSet(routePending) : \A response \in RouteResponses(q) :
                /\ RouteResponseOf(q, response)
                /\ ~response.ok \/ (response.code = "Ok" /\ response.routes # << >>)
                => achievement' # NULL /\ achievement'.points = 50
       /\ route # NULL /\ achievement = NULL => achievement' = NULL]_vars

\* the answers of the routing request that end in simulateRoute
RouteFailures(q) == {response \in RouteResponses(q) : ~response.ok}

\* the [lon, lat] points a request runs between
RequestOrigin(q) == <<q.userLocation.lon, q.userLocation.lat>>

RequestDestination(q) ==
    <<ParseFloat(q.selectedLocation.lon), ParseFloat(q.selectedLocation.lat)>>

\* the step count of simulateRoute for a request: one per 500 m, at least 5
StepCount(q) == Max(5, turfLength(RequestOrigin(q), RequestDestination(q)) \div 500)

\* C19: the straight-line fallback produces a path of at least 2 points whose
\* first point is the origin and whose last point is the destination, for
\* every pair of them, identical points included, and the number of its
\* points is the step count max(5, one per 500 m).
C19_FallbackPathOfStepCount ==
    [][RouteCompletes =>
            \A q \in BagToSet(routePending) : \A response \in RouteFailures(q) :
                RouteResponseOf(q, response) =>
                    /\ Len(route'.coordinates) >= 2
                    /\ route'.coordinates[1] = RequestOrigin(q)
                    /\ route'.coordinates[Len(route'.coordinates)] = RequestDestination(q)
                    /\ Len(route'.coordinates) = StepCount(q)]_vars

\* C19 as the code has it: the fallback path has at least 2 points, begins at
\* the origin and ends at the destination, identical points included, and
\* the number of its points is the step count plus one, the step count being
\* the number of its segments.
C19_FallbackPathOfStepCountPlusOne ==
    [][RouteCompletes =>
            \A q \in BagToSet(routePending) : \A response \in RouteFailures(q) :
                RouteResponseOf(q, response) =>
                    /\ Len(route'.coordinates) >= 2
                    /\ route'.coordinates[1] = RequestOrigin(q)
                    /\ route'.coordinates[Len(route'.coordinates)] = RequestDestination(q)
                    /\ Len(route'.coordinates) = StepCount(q) + 1]_vars

\* a fallback path between identical points is stored: six points, all of
\* them the origin
C19_FallbackPathOnThePoint ==
    /\ route # NULL
    /\ Len(route.coordinates) = 6
    /\ \A i \in 1..6 : route.coordinates[i] = route.coordinates[1]

\* the profile of the routing service the claim names for a transport mode
ProfileNamed(mode) ==
    CASE mode = "driving-car" -> "car"
      [] mode = "cycling" -> "bike"
      [] mode = "foot-walking" -> "foot"

\* a step that issues a routing request whose profile is the one named for the
\* transport mode its handler reads: the mode selected at the press of the
\* directions button, the mode of its render for the timer of the initial place
IssuesRequestOfMode ==
    \E c \in {Closure(State)} \cup BagToSet(timerPending) :
        routePending' = BagAdd(routePending, [c EXCEPT !.transportMode = ProfileNamed(@)])

\* the duration simulateRoute estimates for the endpoints of request q under a mode
FallbackDuration(q, mode) ==
    simulateRoute(State, [q EXCEPT !.transportMode = Profile(mode)]).route.duration

\* C20: the transport mode affects the routing request and the fallback
\* duration estimate.  A request uses profile car for driving, bike for
\* cycling and foot for walking, and the duration of a fallback route depends
\* on the mode: between distinct points, another mode gives another duration.
C20_ModeSetsProfileAndFallbackDuration ==
    [][/\ BagCardinality(routePending') > BagCardinality(routePending) => IssuesRequestOfMode
       /\ RouteCompletes =>
            \A q \in BagToSet(routePending) : \A response \in RouteFailures(q) :
                RouteResponseOf(q, response) /\ RequestOrigin(q) # RequestDestination(q) =>
                    \A mode \in TransportModes :
                        Profile(mode) # q.transportMode =>
                            FallbackDuration(q, mode) # route'.duration]_vars

\* C20 as the code has it: the transport mode affects the routing request
\* only.  A request uses profile car for driving, bike for cycling and foot
\* for walking, and the duration of a fallback route does not depend on the
\* mode: every mode gives the same duration, 3 minutes per kilometre.
C20_ModeSetsProfileOnly ==
    [][/\ BagCardinality(routePending') > BagCardinality(routePending) => IssuesRequestOfMode
       /\ RouteCompletes =>
            \A q \in BagToSet(routePending) : \A response \in RouteFailures(q) :
                RouteResponseOf(q, response) =>
                    \A mode \in TransportModes :
                        FallbackDuration(q, mode) = route'.duration]_vars

\* a fallback route between distinct points is stored while a request of the
\* bike profile is in flight
C20_FallbackRouteAndBikeRequest ==
    /\ route # NULL
    /\ Len(route.coordinates) > 2
    /\ route.duration > 0
    /\ \E q \in BagToSet(routePending) : q.transportMode = "bike"

\* the Haversine distance of the distance calculator between the endpoints of
\* request q, in metres
CalculatedDistance(q) ==
    calculateDistance(q.userLocation.lat, q.userLocation.lon,
                      ParseFloat(q.selectedLocation.lat), ParseFloat(q.selectedLocation.lon))

\* C21: the duration of a fallback route is round(3 * distanceKm(origin,
\* destination)) minutes, distanceKm being the distance calculator, for every
\* origin and destination.
C21_DurationOfCalculatedDistance ==
    [][RouteCompletes =>
            \A q \in BagToSet(routePending) : \A response \in RouteFailures(q) :
                RouteResponseOf(q, response) =>
                    route'.duration = RoundDiv(3 * CalculatedDistance(q), 1000)]_vars

\* C21 as the code has it: the duration of a fallback route is round(3 * km)
\* minutes of the length turf.length measures for the line from the origin to
\* the destination, on a sphere of radius 6371.0088 km and not of 6371 km.
C21_DurationOfLineLength ==
    [][RouteCompletes =>
            \A q \in BagToSet(routePending) : \A response \in RouteFailures(q) :
                RouteResponseOf(q, response) =>
                    route'.duration =
                        RoundDiv(3 * turfLength(RequestOrigin(q), RequestDestination(q)), 1000)]_vars

\* a fallback route is stored whose duration is not the one the distance
\* calculator gives for the user location and the destination
C21_DurationBeyondCalculatedDistance ==
    /\ route # NULL
    /\ Len(route.coordinates) > 2
    /\ userLocation # NULL
    /\ selectedLocation # NULL
    /\ route.duration # RoundDiv(3 * CalculatedDistance(Closure(State)), 1000)

\* the coordinates a state holds: the centre of the map, the user location,
\* the origin of the stored places and the locations of the places a service
\* returned, with the two coordinates the component names (the first centre
\* of the map and the location used when geolocation fails)
PointsOfState ==
    {position, InitialPosition, DefaultLocation}
        \cup (IF userLocation = NULL THEN {} ELSE {userLocation})
        \cup (IF recommendationsOrigin = NULL THEN {} ELSE {recommendationsOrigin})
        \cup (IF IsMock(recommendations) THEN {}
              ELSE {recommendations[i].location : i \in 1..Len(recommendations)})

\* C22: the distance calculator is symmetric and zero on identical points:
\* for all coordinates a and b, distanceKm(a, b) = distanceKm(b, a) and
\* distanceKm(a, a) = 0.  In particular the distance stored with a place,
\* measured from the origin to the place, is the distance from the place to
\* the origin.
C22_DistanceSymmetric ==
    /\ \A a \in PointsOfState : \A b \in PointsOfState :
            /\ calculateDistance(a.lat, a.lon, b.lat, b.lon)
                   = calculateDistance(b.lat, b.lon, a.lat, a.lon)
            /\ calculateDistance(a.lat, a.lon, a.lat, a.lon) = 0
    /\ ~IsMock(recommendations) =>
            \A i \in 1..Len(recommendations) :
                recommendations[i].distance =
                    calculateDistance(recommendations[i].location.lat,
                                      recommendations[i].location.lon,
                                      recommendationsOrigin.lat, recommendationsOrigin.lon)

\* places of a service are stored, one of them away from the origin and at
\* another latitude
C22_PlaceAwayFromOrigin ==
    /\ recommendations # << >>
    /\ ~IsMock(recommendations)
    /\ \E i \in 1..Len(recommendations) :
            /\ recommendations[i].distance > 0
            /\ recommendations[i].location.lat # recommendationsOrigin.lat

\* C23: the handlers of the map are registered with guaranteed
\* unregistration.  After any sequence of renders exactly one handler is
\* registered for each of the zoom, move and click events, after the teardown
\* none is registered, and one click of the map causes at most one
\* reverse-geocoding request.
C23_OneHandlerPerEvent ==
    /\ [](\A e \in MapEvents : listeners[e] = IF mounted THEN 1 ELSE 0)
    /\ [][BagCardinality(reversePending') <= BagCardinality(reversePending) + 1]_vars

\* a click is awaiting the reverse geocoder in a component that has rendered
\* again since its mount: an earlier click has become the destination
C23_ClickAfterRenders ==
    /\ mounted
    /\ BagCardinality(reversePending) = 1
    /\ selectedLocation # NULL
    /\ transportMode # "driving-car"

\* C24: whenever a route is present it was computed for the selected
\* destination and the user location of the state: with both known, the
\* route begins at the user location and ends at the destination, whatever
\* the interleaving of selections, location updates and routing responses.
C24_RouteOfCurrentEndpoints ==
    route # NULL /\ userLocation # NULL /\ selectedLocation # NULL =>
        /\ route.coordinates[1] = RequestOrigin(Closure(State))
        /\ route.coordinates[Len(route.coordinates)] = RequestDestination(Closure(State))

\* C25: the location error is shown only while the user location is the
\* fallback coordinate: after any sequence of acquisitions and retries,
\* overlapping ones included, an acquisition that succeeded last leaves its
\* coordinate with no error shown.
C25_ErrorOnlyWithFallback == locationError # NULL => userLocation = DefaultLocation

\* the stored places and the origin of the discovery that wrote them
Written == <<recommendations, recommendationsOrigin>>

\* what a step of one discovery does to its requests and to the places
OneTierAtATime ==
    /\ (BagCardinality(overpassPending') > BagCardinality(overpassPending)) =>
           (/\ DiscoveryPending = 0
            /\ recommendationsOrigin = NULL
            /\ DiscoveryPending' = 1)
    /\ (BagCardinality(nominatimPending') > BagCardinality(nominatimPending)) =>
           (/\ BagCardinality(overpassPending') < BagCardinality(overpassPending)
            /\ DiscoveryPending' = 1)
    /\ (Written' # Written) => (DiscoveryPending = 1 /\ DiscoveryPending' = 0)
    /\ DiscoveryCompletes =>
           (recommendationsOrigin = NULL /\ recommendationsOrigin' # NULL)
    /\ (recommendationsOrigin # NULL) =>
           UNCHANGED <<recommendations, recommendationsOrigin, overpassPending,
                       nominatimPending>>

\* C26: every POI discovery terminates, provided each service answers its
\* request in the end.  From its invocation on it issues one primary
\* request, a secondary request at most once and only in the step that ends
\* the primary one, and it writes the places exactly once, in the step that
\* ends its last request: nothing is requested or written after that, and
\* the write comes about.
C26_DiscoveryTerminates ==
    /\ [][OneTierAtATime]_vars
    /\ (DiscoveryPending > 0) ~> (DiscoveryPending = 0 /\ recommendationsOrigin # NULL)

\* the places of the last tier are written: both services had their request
\* and failed
C26_WrittenAfterBothTiers ==
    /\ DiscoveryPending = 0
    /\ IsMock(recommendations)
    /\ recommendationsOrigin # NULL

\* C27: a directions request made while the user location or the
\* destination is unknown does nothing: the step of the request changes no
\* variable, and no step taken from such a state issues a routing request.
C27_UnknownEndpointNoOp ==
    [][(userLocation = NULL \/ selectedLocation = NULL) =>
          /\ (GetDirections => UNCHANGED vars)
          /\ BagCardinality(routePending') <= BagCardinality(routePending)]_vars

\* the state in which the request is made and which it leaves: a
\* destination is shown with its button, the location is still awaited, and
\* there is neither a routing request nor a route nor an achievement
C27_DirectionsAskedBeforeLocation ==
    /\ mounted
    /\ selectedLocation # NULL
    /\ userLocation = NULL
    /\ ENABLED GetDirections
    /\ routePending = EmptyBag
    /\ route = NULL
    /\ achievement = NULL

\* C28: once the user location is resolved it never returns to unresolved:
\* no acquisition, retry, locate-me press, selection or clear takes a known
\* location back to null.
C28_ResolvedStaysResolved == [][userLocation # NULL => userLocation' # NULL]_vars

\* the location was resolved by the fallback, the user retried, and the
\* new acquisition is in flight
C28_RetryOverResolved ==
    /\ userLocation = DefaultLocation
    /\ BagCardinality(geoPending) > 0

====
